---- MODULE Spec2Model ----
(***************************************************************************)
(* Verification model of the single-provider scheduling engine             *)
(* (models/ortools_travel_optimized_model.py,                              *)
(* create_and_solve_optimization_model) of the bluestone scheduling        *)
(* backend.                                                                *)
(*                                                                         *)
(* One call of create_and_solve_optimization_model is a behaviour:         *)
(*   BuildModel   lines 69-215   horizon, pair filter, requirements,       *)
(*                               availability matrix                       *)
(*   Solve        lines 220-601  variables, constraints, solver.Solve()    *)
(*                               and the mapping of the solver status      *)
(*   ExtractDay   lines 643-703  one iteration d of the extraction loops   *)
(*   Finish       lines 705-794  the result dictionary                     *)
(*                                                                         *)
(* The MIP solver is external.  Its answer is a nondeterministic choice    *)
(* among the points that satisfy the constraints the code adds.  The       *)
(* values of day d are chosen when the extraction loop reads them with     *)
(* solution_value(); feasible_from keeps the choice consistent with the    *)
(* coverage equalities, which couple the days.  Dates are day numbers      *)
(* whose weekday is (date % 7), 0 = Monday; strftime('%Y-%m-%d') is        *)
(* injective on dates, so a date string is modelled by its day number.     *)
(* alpha is kept in percent (alpha = 50 stands for 0.5).                   *)
(*                                                                         *)
(* Further specifications:                                                 *)
(*   SpecOptimal   the same call for one provider at one facility over     *)
(*                 four weeks, with the objective of lines 486-562: the    *)
(*                 solver reveals optimal points only                      *)
(*   SpecTravel    utils/optimal_travel_calculator.py,                     *)
(*                 calculate_optimal_daily_travel                          *)
(*   SpecHorizon   the horizon of lines 69-93 on its own                   *)
(*   SpecRelabel   models/dataloader.py, the conversions of result keys    *)
(*                 to real ids                                             *)
(*   SpecEndpoint  app.py, run_optimization_endpoint                       *)
(***************************************************************************)
EXTENDS Integers, Sequences, FiniteSets, TLC

\* ------------------------------------------------------------------ bounds

\* the largest monthly census of a (provider, facility) pair and the largest
\* max_patients_per_day of a call
MaxCensus == 2
MaxPatientsPerDay == 2

\* the largest week count of a horizon built on its own
MaxWeeks == 4

\* the catalog: provider and facility indices (load_pcp_facility_data numbers
\* the sorted ids from 0)
Providers == {0, 1}
Facilities == {0, 1}
providers == Cardinality(Providers)

DaysInWeek == 7
WorkingWeekdays == 5

\* ------------------------------------------------------------------ helpers

Max(a, b) == IF a >= b THEN a ELSE b

RECURSIVE SumOver(_, _)
SumOver(S, g) ==
    IF S = {} THEN 0
    ELSE LET e == CHOOSE e \in S : TRUE IN g[e] + SumOver(S \ {e}, g)

RECURSIVE MaxOver(_, _)
MaxOver(S, g) ==
    IF S = {} THEN 0
    ELSE LET e == CHOOSE e \in S : TRUE IN Max(g[e], MaxOver(S \ {e}, g))

\* Python round(n / den) for n >= 0: round half to even
RoundHalfEven(n, den) ==
    LET q == n \div den
        r2 == 2 * (n % den)
    IN  IF r2 < den THEN q
        ELSE IF r2 > den THEN q + 1
        ELSE IF q % 2 = 0 THEN q ELSE q + 1


\* ------------------------------------------------------------------ state

VARIABLES
    args,                  \* the arguments of the call
    pc,                    \* "start", "built", "extract", "done", "raised"
    working_days,          \* the horizon: ascending sequence of dates
    valid_pf_pairs,        \* the target provider's (provider, facility) pairs
    patient_requirements,  \* facility -> adjusted demand
    availability,          \* day index -> 1 available / 0 unavailable
    solver_status,         \* what solver.Solve() returned
    columns,               \* day index -> the solver's feasible columns of the day
    feasible_from,         \* day index -> demand vectors the solver can still cover
    remaining,             \* demand not yet placed on the days read so far
    day,                   \* index of the day read last, -1 before the first
    x, y, z,               \* the solver's values for that day
    served,                \* facility -> patients put into the schedule so far
    solution,              \* what the objective sees of the days read so far
    incumbent,             \* objective values of feasible points the solver knows
    results,               \* the returned dictionary
    call,                  \* the arguments of a call of one of the other functions
    returned               \* what that call returned

vars == <<args, pc, working_days, valid_pf_pairs, patient_requirements,
          availability, solver_status, columns, feasible_from, remaining, day,
          x, y, z, served, solution, incumbent, results, call, returned>>

total_days == Len(working_days)
Days == 0 .. (total_days - 1)
DayDate(d) == working_days[d + 1]
active_providers == {args.target_provider}
max_patients_per_day == args.max_patients_per_day

\* ------------------------------------------------------------------ build

\* lines 78-85: the Mon-Fri dates of [current, end_date)
AllCalendarDays(current, end_date) ==
    [i \in 1 .. (end_date - current) |-> current + i - 1]
RECURSIVE BuildWorkingDays(_, _)
BuildWorkingDays(current, end_date) ==
    IF current >= end_date THEN <<>>
    ELSE (IF current % DaysInWeek < WorkingWeekdays THEN <<current>> ELSE <<>>)
         \o BuildWorkingDays(current + 1, end_date)

\* line 122: keep the pairs of the target provider
FilterPairs(pairs, target) == {pf \in pairs : pf[1] = target}

\* line 135: max(0, round(count * (1 + alpha))) per facility
AdjustedRequirement(count, alpha) ==
    Max(0, RoundHalfEven(count * (100 + alpha), 100))

\* line 140
total_real_demand == SumOver(Facilities, patient_requirements)

\* line 174, 181: day_mapping.get(day_of_week_name, True)
IsWorking(day_mapping, name) ==
    IF name \in DOMAIN day_mapping THEN day_mapping[name] ELSE TRUE

\* lines 177-184: weekly availability
WeeklyAvailability(wd, day_mapping) ==
    [d \in 0 .. (Len(wd) - 1) |->
        IF ~IsWorking(day_mapping, wd[d + 1] % DaysInWeek) THEN 0 ELSE 1]

UnavailableDatesOverwrite(avail, wd, active, unavailable) ==
    [d \in DOMAIN avail |->
        IF \E e \in unavailable : e[2] = wd[d + 1] /\ e[1] \in active
        THEN 0 ELSE 1]

\* lines 188-200: unavailable dates are applied on top of the weekly rules
ApplyUnavailableDates(avail, wd, active, unavailable) ==
    [d \in DOMAIN avail |->
        IF \E e \in unavailable : e[2] = wd[d + 1] /\ e[1] \in active
        THEN 0 ELSE avail[d]]

\* lines 118, 131, 155: the checks that raise before the try block
RaisesBeforeTry(a) ==
    \/ a.target_provider < 0
    \/ a.target_provider >= providers
    \/ ~a.patient_data
    \/ ~a.distance_data

\* a result dictionary: its status, its keys, the template of its message and
\* the values the message names
NoResult == [status |-> "", keys |-> {}, message |-> "", names |-> {}]
ZeroVector == [f \in Facilities |-> 0]

\* no call of another function is in progress
NoCall == [function |-> "none"]
NoReturn == [function |-> "none"]

\* the part of the solver's point that the objective depends on, for the days
\* read so far: the days each facility is visited (z = 1), the days with
\* patients, the largest daily load and the travel terms of the objective
NoSolution ==
    [visited |-> [f \in Facilities |-> {}],
     patient_days |-> {},
     x_max |-> 0,
     travel |-> 0]

BuildModel ==
    /\ pc = "start"
    /\ IF RaisesBeforeTry(args)
       THEN /\ pc' = "raised"
            /\ UNCHANGED <<working_days, valid_pf_pairs, patient_requirements,
                           availability>>
       ELSE LET wd == BuildWorkingDays(args.start_monday,
                                       args.start_monday + DaysInWeek * args.weeks)
            IN  /\ pc' = "built"
                /\ working_days' = wd
                /\ valid_pf_pairs' =
                       FilterPairs(args.provider_facility_pairs, args.target_provider)
                /\ patient_requirements' =
                       [f \in Facilities |->
                           AdjustedRequirement(args.patient_counts[f], args.alpha)]
                /\ availability' =
                       ApplyUnavailableDates(
                           WeeklyAvailability(wd, args.weekly_availability),
                           wd, {args.target_provider},
                           args.provider_unavailable_dates)
    /\ UNCHANGED <<call, returned>>
    /\ UNCHANGED <<args, solver_status, columns, feasible_from, remaining, day,
                   x, y, z, served, solution, incumbent, results>>


\* ------------------------------------------------------------------ the MIP
\* A column is the solver's values for one day d of the one active provider:
\* x[f] patients at facility f, y works that day, z[f] visits facility f.
\* x_max, the home-travel variables, the pair variables w and the slacks of
\* the gap and bunching windows (lines 262-269, 366-450, 498-526) are
\* continuous or determined by z and unbounded above: they never make a
\* point infeasible.

IsValidPair(p, f) == <<p, f>> \in valid_pf_pairs

\* lines 237-260: x is IntVar(0, M) for a valid pair and IntVar(0, 0)
\* otherwise; y and z are BoolVar
VariableBounds(p, c) ==
    /\ \A f \in Facilities :
          c.x[f] \in 0 .. (IF IsValidPair(p, f) THEN max_patients_per_day ELSE 0)
    /\ c.y \in {0, 1}
    /\ \A f \in Facilities : c.z[f] \in {0, 1}

\* the sum with only the first valid facility's coefficient set
DayLoadFirstOnly(p, xc) ==
    LET valid == {f \in Facilities : IsValidPair(p, f)}
    IN  IF valid = {} THEN 0
        ELSE xc[CHOOSE f \in valid : \A g \in valid : f <= g]

\* sum of x over the facilities that are valid pairs of p
DayLoad(p, xc) ==
    SumOver({f \in Facilities : IsValidPair(p, f)}, xc)

\* the daily cap one patient too tight
DailyCapacityStrict(p, c) ==
    /\ 0 <= DayLoad(p, c.x)
    /\ DayLoad(p, c.x) < max_patients_per_day

\* CONSTRAINT 2, lines 325-331: 0 <= sum_f x[p,f,d] <= max_patients_per_day
DailyCapacity(p, c) ==
    /\ 0 <= DayLoad(p, c.x)
    /\ DayLoad(p, c.x) <= max_patients_per_day

\* the work-day link with a coefficient one too small
WorkDayLinkTight(p, c) ==
    DayLoad(p, c.x) - (max_patients_per_day - 1) * c.y <= 0

\* CONSTRAINT 3, lines 333-340: sum_f x[p,f,d] - M * y[p,d] <= 0
WorkDayLink(p, c) ==
    DayLoad(p, c.x) - max_patients_per_day * c.y <= 0

\* the visit link without the branch that pins the invalid pairs to zero
VisitLinkValidOnly(p, c) ==
    \A f \in Facilities :
        IsValidPair(p, f) => c.x[f] - max_patients_per_day * c.z[f] <= 0

\* CONSTRAINT 4, lines 342-356: x <= M * z for a valid pair, x = 0 and z = 0
\* for the others
VisitLink(p, c) ==
    \A f \in Facilities :
        IF IsValidPair(p, f)
        THEN c.x[f] - max_patients_per_day * c.z[f] <= 0
        ELSE c.x[f] = 0 /\ c.z[f] = 0

\* the availability restriction never added
AvailabilityRestrictionSkipped(d, c) == TRUE

\* CONSTRAINT 5, lines 358-364: y[p,d] = 0 where availability[p,d] = 0
AvailabilityRestriction(d, c) ==
    availability[d] = 0 => c.y = 0

\* lines 457, 469: the guard under which a required or forbidden visit is applied
VisitApplies(v) ==
    /\ v[1] \in active_providers
    /\ IsValidPair(v[1], v[2])
    /\ v[3] < total_days

\* CONSTRAINT 9, lines 453-464: 1 <= x[p,f,d] <= M for an applied required visit
RequiredVisits(d, c) ==
    \A v \in args.required_visits :
        (VisitApplies(v) /\ v[3] = d) =>
            (1 <= c.x[v[2]] /\ c.x[v[2]] <= max_patients_per_day)

\* lines 466-471: z[p,f,d] = 0 for an applied forbidden visit
ForbiddenVisitsSkipped(d, c) == TRUE
ForbiddenVisits(d, c) ==
    \A v \in args.forbidden_visits :
        (VisitApplies(v) /\ v[3] = d) => c.z[v[2]] = 0

\* lines 462, 471: x[p, f, d] and z[p, f, d] with a negative d are not keys of
\* the variable dictionaries: KeyError inside the try block
ConstraintBuildRaises ==
    \E v \in args.required_visits \cup args.forbidden_visits :
        VisitApplies(v) /\ v[3] < 0

\* the columns of day d that satisfy every constraint that mentions day d only
ColumnSpace ==
    [x : [Facilities -> 0 .. max_patients_per_day],
     y : {0, 1},
     z : [Facilities -> {0, 1}]]

FeasibleColumn(p, d, c) ==
    /\ VariableBounds(p, c)
    /\ DailyCapacity(p, c)
    /\ WorkDayLink(p, c)
    /\ VisitLink(p, c)
    /\ AvailabilityRestriction(d, c)
    /\ RequiredVisits(d, c)
    /\ ForbiddenVisits(d, c)

Columns(p, d) == {c \in ColumnSpace : FeasibleColumn(p, d, c)}

\* CONSTRAINT 1, lines 316-323: the facilities that get a coverage constraint
facilities_with_providers ==
    {pf[2] : pf \in {q \in valid_pf_pairs : q[1] \in active_providers}}

Covered ==
    {f \in Facilities :
        f \in facilities_with_providers /\ patient_requirements[f] > 0}

\* the right-hand sides of the coverage constraints
CoverageDemand ==
    [f \in Facilities |-> IF f \in Covered THEN patient_requirements[f] ELSE 0]

\* a coverage constraint with its lower bound lost: Constraint(0, r_f)
CoverageAtMost(rem) ==
    \A f \in Covered : rem[f] >= 0

\* line 319: Constraint(r_f, r_f): over all days the x of f sum to r_f, so
\* nothing of the demand is left after the last day
CoverageMet(rem) ==
    \A f \in Covered : rem[f] = 0

\* the demand left when the column xc is taken out of rem; a column may not
\* take more than is left (the upper bound of the coverage constraint)
Fits(rem, xc) == \A f \in Covered : xc[f] <= rem[f]
Take(rem, xc) ==
    [f \in Facilities |-> IF f \in Covered THEN rem[f] - xc[f] ELSE 0]

DemandSpace ==
    {rem \in [Facilities -> 0 .. MaxOver(Facilities, CoverageDemand)] :
        \A f \in Facilities : rem[f] <= CoverageDemand[f]}

\* line 569, solver.Solve(): for every day index d (and total_days), the
\* demand vectors that the columns of the days d, d+1, ... can cover exactly.
\* The model is feasible when CoverageDemand is in FeasibleTable(p, 0)[0].
\* (the table of the later days and the day's columns are bound by a set
\* constructor so that each is computed once)
RECURSIVE FeasibleTable(_, _)
FeasibleTable(p, d) ==
    IF d >= total_days
    THEN [e \in {total_days} |-> {rem \in DemandSpace : CoverageMet(rem)}]
    ELSE CHOOSE table \in
             {[e \in d .. total_days |->
                  IF e = d
                  THEN {rem \in DemandSpace :
                           \E xc \in cols :
                               Fits(rem, xc) /\ Take(rem, xc) \in rest[d + 1]}
                  ELSE rest[e]] :
              rest \in {FeasibleTable(p, d + 1)},
              cols \in {{c.x : c \in Columns(p, d)}}} : TRUE

\* ------------------------------------------------------------------ objective
\* Times are in thousandths of an hour and the weights lambda_param,
\* lambda_facility, lambda_bunching in tenths, so the objective is counted in
\* units of 1/10000 hour.

T_bunching == 7

\* lines 478-483
T_bar == IF total_real_demand > 0 THEN 25 ELSE 10

\* lines 413-414, 444-445: the days (t + j) % total_days, j in range(T)
Window(t, T) == {(t + j) % total_days : j \in 0 .. (T - 1)}

\* the gap slacks left out of the objective
GapSlackDropped(visits) == 0

\* lines 393-422, 543-549: s_facility_gap[f, t] >= 1 - (visits in the window);
\* minimised, the slacks sum to the number of windows without a visit
GapSlack(visits) ==
    Cardinality({t \in Days :
                    Window(t, args.facility_visit_window) \cap visits = {}})

\* lines 424-450, 552-558: s_facility_bunching[f, t] >= (visits in the window) - 1
BunchingSlack(visits) ==
    SumOver(Days,
            [t \in Days |->
                Max(0, Cardinality(Window(t, T_bunching) \cap visits) - 1)])

\* lines 375-391, 489-492: home_travel_vars[p, d] >= home_time * z[p, f, d] for
\* every valid facility; minimised, it is the largest home time visited
HomeTravel(p, zc) ==
    MaxOver({f \in Facilities : IsValidPair(p, f) /\ zc[f] = 1}, args.home_time)

\* lines 498-538: travel_time * w[p, f1, f2, d] over the ordered pairs of
\* visited valid facilities, w = z[f1] * z[f2]
PairTravel(p, zc) ==
    args.facility_time *
        Cardinality({pr \in Facilities \X Facilities :
                        /\ pr[1] /= pr[2]
                        /\ IsValidPair(p, pr[1]) /\ IsValidPair(p, pr[2])
                        /\ zc[pr[1]] = 1 /\ zc[pr[2]] = 1})

\* the solution after day d with the values c
Accumulate(sol, p, d, c) ==
    [visited |-> [f \in Facilities |->
                     IF c.z[f] = 1 THEN sol.visited[f] \cup {d}
                     ELSE sol.visited[f]],
     patient_days |-> IF DayLoad(p, c.x) > 0
                      THEN sol.patient_days \cup {d} ELSE sol.patient_days,
     x_max |-> Max(sol.x_max, DayLoad(p, c.x)),
     travel |-> sol.travel + HomeTravel(p, c.z) + PairTravel(p, c.z)]

\* the least home time of a facility that still has patients to place
MinHome(rem) ==
    LET open == {f \in Covered : rem[f] > 0}
    IN  IF open = {} THEN 0
        ELSE args.home_time[CHOOSE f \in open :
                                \A g \in open : args.home_time[f] <= args.home_time[g]]

\* lines 486-562 with the auxiliary variables at their minimum, for a point
\* whose days up to d are sol and whose later days still have to place rem.
\* The later days are not read yet: a window counts as visited on them, they
\* add no bunching, and placing rem takes at least ceil(rem / M) visits and a
\* daily load of at least rem / (days left).  The value is a lower bound of
\* the objective of the whole point and is exact at the last day.
ObjectiveUpTo(sol, d, rem) ==
    LET left == total_days - 1 - d
        todo == SumOver(Covered, rem)
        M == max_patients_per_day
    IN  10 * (sol.travel
              + IF todo > 0 THEN MinHome(rem) * ((todo + M - 1) \div M) ELSE 0)
        + args.lambda_param * T_bar
              * Max(sol.x_max,
                    IF todo > 0 /\ left > 0 THEN (todo + left - 1) \div left ELSE 0)
        + 1000 * SumOver(facilities_with_providers,
              [f \in facilities_with_providers |->
                  args.lambda_facility
                      * GapSlack(sol.visited[f] \cup ((d + 1) .. (total_days - 1)))
                  + args.lambda_bunching * BunchingSlack(sol.visited[f])])

Objective(sol) == ObjectiveUpTo(sol, total_days - 1, ZeroVector)

\* k days spread evenly over the horizon, the first of them day s
EvenDays(k, s) ==
    {(s + (i * total_days) \div k) % total_days : i \in 0 .. (k - 1)}

\* Feasible points of a model with one assigned facility: the facility is
\* visited on k evenly spread days and its r patients are shared evenly among
\* them, the earlier days taking the remainder.  The solver's optimum costs
\* no more than any of them.
IncumbentPoints ==
    IF Cardinality(facilities_with_providers) /= 1
    THEN {}
    ELSE LET p == args.target_provider
             f == CHOOSE g \in facilities_with_providers : TRUE
             r == CoverageDemand[f]
             share(ds, d) ==
                 (r \div Cardinality(ds))
                 + (IF Cardinality({e \in ds : e < d}) < r % Cardinality(ds)
                    THEN 1 ELSE 0)
             column(ds, d) ==
                 [x |-> [g \in Facilities |-> IF g = f THEN share(ds, d) ELSE 0],
                  y |-> IF share(ds, d) > 0 THEN 1 ELSE 0,
                  z |-> [g \in Facilities |-> IF g = f THEN 1 ELSE 0]]
             days == {EvenDays(k, s) : k \in 1 .. total_days, s \in Days}
         IN  {[visited |-> [g \in Facilities |-> IF g = f THEN ds ELSE {}],
               patient_days |-> {d \in ds : share(ds, d) > 0},
               x_max |-> share(ds, CHOOSE d \in ds : \A e \in ds : d <= e),
               travel |-> Cardinality(ds) * args.home_time[f]] :
              ds \in {q \in days :
                         \A d \in q : FeasibleColumn(p, d, column(q, d))}}

IncumbentValues == {Objective(q) : q \in IncumbentPoints}

\* ------------------------------------------------------------------ solve

\* what solver.Solve() can return for the model built from args: INFEASIBLE
\* when no point satisfies the constraints; UNBOUNDED when the objective
\* coefficient lambda_param * T_bar of the unbounded x_max (lines 263, 541)
\* is negative; otherwise the optimum or, at the 15 s limit (line 229), the
\* incumbent; NOT_SOLVED when the limit passes before the solver has either
SolverOutcomes(table) ==
    IF CoverageDemand \notin table[0]
    THEN {"INFEASIBLE", "NOT_SOLVED"}
    ELSE IF args.lambda_param < 0
    THEN {"UNBOUNDED", "NOT_SOLVED"}
    ELSE {"OPTIMAL", "FEASIBLE", "NOT_SOLVED"}

\* lines 584-601
SolutionFound(status) == status \in {"OPTIMAL", "FEASIBLE"}

ResultStatus(status) ==
    IF status = "OPTIMAL" THEN "Optimal"
    ELSE IF status = "FEASIBLE" THEN "Feasible (Time Limit)"
    ELSE IF status = "INFEASIBLE" THEN "Infeasible"
    ELSE IF status = "UNBOUNDED" THEN "Unbounded"
    ELSE "Error"

\* lines 593-601, 794: the dictionary returned when no solution was found
FailureMessage(status) ==
    IF status = "INFEASIBLE"
    THEN "OR-Tools model is infeasible with current real data constraints"
    ELSE IF status = "UNBOUNDED" THEN "OR-Tools model is unbounded"
    ELSE "OR-Tools optimization failed with status: {status}"

\* a failure dictionary that still carries a schedule
FailureResultWithSchedule(status) ==
    [status |-> ResultStatus(status),
     keys |-> {"status", "message", "schedule"},
     message |-> FailureMessage(status),
     names |-> {}]

FailureResult(status) ==
    [status |-> ResultStatus(status),
     keys |-> {"status", "message"},
     message |-> FailureMessage(status),
     names |-> IF status \in {"INFEASIBLE", "UNBOUNDED"} THEN {}
               ELSE {<<"status", status>>}]

\* lines 796-806: the dictionary returned by the except branch
ExceptionResult(e) ==
    [status |-> "Error",
     keys |-> {"status", "message", "metadata"},
     message |-> "OR-Tools optimization error: {str(e)}",
     names |-> {<<"exception", e>>}]

\* lines 604-787: the keys of the dictionary returned with a solution
SuccessKeys ==
    {"status", "objective_value", "max_daily_workload", "lambda_param", "alpha",
     "T_bar", "schedule", "provider_utilization", "total_patients_served",
     "total_patient_demand", "total_travel_time", "home_to_facility_travel",
     "facility_to_facility_travel", "daily_travel_times", "summary_stats",
     "overall_utilization", "metadata"}

SuccessResult(status) ==
    [status |-> ResultStatus(status), keys |-> SuccessKeys,
     message |-> "", names |-> {},
     total_patients_served |-> SumOver(Facilities, served),
     total_patient_demand |-> total_real_demand]

Solve ==
    /\ pc = "built"
    /\ \E p \in {args.target_provider}, table \in {FeasibleTable(args.target_provider, 0)} :
       IF ConstraintBuildRaises
       THEN /\ pc' = "done"
            /\ results' = ExceptionResult("KeyError")
            /\ UNCHANGED <<solver_status, columns, feasible_from, remaining,
                           incumbent>>
       ELSE \E status \in SolverOutcomes(table) :
               /\ solver_status' = status
               /\ IF SolutionFound(status)
                  THEN /\ pc' = "extract"
                       /\ columns' = [d \in Days |-> Columns(p, d)]
                       /\ feasible_from' = table
                       /\ remaining' = CoverageDemand
                       /\ incumbent' = IncumbentValues
                       /\ UNCHANGED results
                  ELSE /\ pc' = "done"
                       /\ results' = FailureResult(status)
                       /\ UNCHANGED <<columns, feasible_from, remaining,
                                      incumbent>>
    /\ UNCHANGED <<call, returned>>
    /\ UNCHANGED <<args, working_days, valid_pf_pairs, patient_requirements,
                   availability, day, x, y, z, served, solution>>

\* ------------------------------------------------------------------ extract

\* lines 686-691: the patients of one day that go into the schedule
\* (solution values above the 0.1 tolerance, rounded)
DayAssignments(p, xc) ==
    [f \in {g \in Facilities : IsValidPair(p, g) /\ xc[g] > 0} |-> xc[f]]

\* lines 643-703, one day d: the solver's values of the day are read and the
\* day's patients are added to the schedule
ReadDay(p, d, c) ==
    /\ Fits(remaining, c.x)
    /\ Take(remaining, c.x) \in feasible_from[d + 1]
    /\ x' = c.x
    /\ y' = c.y
    /\ z' = c.z
    /\ remaining' = Take(remaining, c.x)
    /\ served' =
           [f \in Facilities |->
               IF f \in DOMAIN DayAssignments(p, c.x)
               THEN served[f] + DayAssignments(p, c.x)[f]
               ELSE served[f]]
    /\ day' = d

ExtractDay ==
    /\ pc = "extract"
    /\ day + 1 < total_days
    /\ \E c \in columns[day + 1] : ReadDay(args.target_provider, day + 1, c)
    /\ UNCHANGED <<call, returned>>
    /\ UNCHANGED <<args, pc, working_days, valid_pf_pairs, patient_requirements,
                   availability, solver_status, columns, feasible_from, solution,
                   incumbent, results>>

\* one day of an optimal point: solver.Solve() returned OPTIMAL, so the point
\* costs no more than any feasible point, and no part of it costs more than
\* the points in incumbent
WithinIncumbent(v) == \A u \in incumbent : v <= u

ExtractOptimalDay ==
    /\ pc = "extract"
    /\ solver_status = "OPTIMAL"
    /\ day + 1 < total_days
    /\ \E c \in columns[day + 1] :
          /\ ReadDay(args.target_provider, day + 1, c)
          /\ solution' = Accumulate(solution, args.target_provider, day + 1, c)
          /\ WithinIncumbent(ObjectiveUpTo(solution', day + 1, remaining'))
    /\ UNCHANGED <<call, returned>>
    /\ UNCHANGED <<args, pc, working_days, valid_pf_pairs, patient_requirements,
                   availability, solver_status, columns, feasible_from,
                   incumbent, results>>

\* one day of the point returned at the time limit: any feasible point
ExtractFeasibleDay ==
    /\ solver_status = "FEASIBLE"
    /\ ExtractDay

\* lines 705-794: the result dictionary; 'date_range' (line 784) reads
\* working_days[0] and working_days[-1], an IndexError on an empty horizon that
\* the except branch turns into an error dictionary
Finish ==
    /\ pc = "extract"
    /\ day + 1 >= total_days
    /\ pc' = "done"
    /\ results' = IF total_days = 0 THEN ExceptionResult("IndexError")
                  ELSE SuccessResult(solver_status)
    /\ UNCHANGED <<call, returned>>
    /\ UNCHANGED <<args, working_days, valid_pf_pairs, patient_requirements,
                   availability, solver_status, columns, feasible_from, remaining,
                   day, x, y, z, served, solution, incumbent>>

\* ------------------------------------------------------------------ inputs
\* The catalog has two providers; provider 0 is the one being scheduled and
\* provider 1 is assigned to every facility.  The census of the scheduled
\* provider is positive only at facilities it is assigned to
\* (extract_patient_data_for_provider reads the provider's own rows).

TargetProvider == CHOOSE p \in Providers : \A q \in Providers : p <= q

\* weekly_availability as the day_mapping of line 174: no entry, Monday not
\* working, Monday working
DayMappingChoices ==
    {<<>>} \cup {[n \in {0} |-> b] : b \in BOOLEAN}

\* provider_unavailable_dates: nothing, the start date for either provider,
\* the day after it, the first Saturday (a date that is no horizon day)
UnavailableChoices(start) ==
    {{}} \cup {{<<p, start>>} : p \in Providers}
         \cup {{<<TargetProvider, start + 1>>}, {<<TargetProvider, start + 5>>}}

\* required_visits: at most one triple (provider, facility, day index); the
\* day index is the first day, the day after a one-week horizon, or negative
RequiredChoices ==
    {{}} \cup {{<<p, f, 0>>} : p \in Providers, f \in Facilities}
         \cup {{<<TargetProvider, 0, d>>} : d \in {-1, 5}}

\* forbidden_visits: at most one triple
ForbiddenChoices ==
    {{}} \cup {{<<p, f, 0>>} : p \in Providers, f \in Facilities}
         \cup {{<<TargetProvider, 0, 5>>}}

\* forbidden_visits of a day-of-week requirement: facility f on every horizon
\* day of call a that does not fall on weekday wd
OffWeekdayVisits(a, f, wd) ==
    LET dates == BuildWorkingDays(a.start_monday,
                                  a.start_monday + DaysInWeek * a.weeks)
    IN  {<<a.target_provider, f, n - 1>> :
            n \in {e \in DOMAIN dates : dates[e] % DaysInWeek /= wd}}

\* availability constraints that go together with a required visit
ConflictChoices(start) ==
    {<<wa, un>> \in DayMappingChoices \X UnavailableChoices(start) :
        \/ wa = <<>> /\ un = {}
        \/ wa = [n \in {0} |-> FALSE] /\ un = {}
        \/ wa = <<>> /\ un = {<<TargetProvider, start>>}}

\* a required visit is applied when the guard of line 457 holds at build time
AppliedRequired(rq, assigned) ==
    \A v \in rq : v[1] = TargetProvider /\ v[2] \in assigned /\ v[3] = 0

BaseArgs(assigned, counts, m) ==
    [start_monday |-> 0,
     weeks |-> 1,
     target_provider |-> TargetProvider,
     provider_facility_pairs |->
         {<<TargetProvider, f>> : f \in assigned}
         \cup ((Providers \ {TargetProvider}) \X Facilities),
     patient_counts |-> counts,
     alpha |-> 50,
     max_patients_per_day |-> m,
     lambda_param |-> 0,
     lambda_facility |-> 10,
     lambda_bunching |-> 0,
     facility_visit_window |-> 10,
     home_time |-> [f \in Facilities |-> 500],
     facility_time |-> 200,
     weekly_availability |-> <<>>,
     provider_unavailable_dates |-> {},
     required_visits |-> {},
     forbidden_visits |-> {},
     patient_data |-> TRUE,
     distance_data |-> TRUE]

\* one argument away from the plain call: a facility without patients this
\* month, no service buffer, another start date, an empty horizon, a negative
\* workload weight, a failed data load, a bad provider index
Variants(a) ==
    {[a EXCEPT !.patient_counts[f] = 0] : f \in Facilities} \cup
    {[a EXCEPT !.alpha = 0],
     [a EXCEPT !.start_monday = 3],
     [a EXCEPT !.start_monday = 3,
               !.weekly_availability = [n \in {0} |-> FALSE]],
     [a EXCEPT !.weeks = 0],
     [a EXCEPT !.lambda_param = -1],
     [a EXCEPT !.patient_data = FALSE],
     [a EXCEPT !.distance_data = FALSE],
     [a EXCEPT !.target_provider = providers]}

Init ==
    /\ \E assigned \in (SUBSET Facilities) \ {{}},
          counts \in [Facilities -> {0, 1, MaxCensus}],
          m \in {1, MaxPatientsPerDay} :
          /\ \A f \in Facilities : counts[f] = 0 <=> f \notin assigned
          /\ LET base == BaseArgs(assigned, counts, m) IN
             \/ args \in Variants(base)
             \/ \E wa \in DayMappingChoices,
                   un \in UnavailableChoices(base.start_monday) :
                   args = [base EXCEPT !.weekly_availability = wa,
                                       !.provider_unavailable_dates = un]
             \/ \E av \in ConflictChoices(base.start_monday),
                   rq \in RequiredChoices \ {{}} :
                   /\ AppliedRequired(rq, assigned) \/ av = <<(<<>>), {}>>
                   /\ args = [base EXCEPT !.weekly_availability = av[1],
                                          !.provider_unavailable_dates = av[2],
                                          !.required_visits = rq]
             \/ \E fb \in ForbiddenChoices \ {{}} :
                   args = [base EXCEPT !.forbidden_visits = fb]
             \/ \E f \in assigned, start \in {0, 3} :
                   LET shifted == [base EXCEPT !.start_monday = start] IN
                   args = [shifted EXCEPT !.forbidden_visits =
                                              OffWeekdayVisits(shifted, f, 0)]
    /\ pc = "start"
    /\ working_days = <<>>
    /\ valid_pf_pairs = {}
    /\ patient_requirements = ZeroVector
    /\ availability = <<>>
    /\ solver_status = "NONE"
    /\ columns = <<>>
    /\ feasible_from = <<>>
    /\ remaining = ZeroVector
    /\ day = -1
    /\ x = ZeroVector
    /\ y = 0
    /\ z = ZeroVector
    /\ served = ZeroVector
    /\ solution = NoSolution
    /\ incumbent = {}
    /\ results = NoResult
    /\ call = NoCall
    /\ returned = NoReturn

Next == BuildModel \/ Solve \/ ExtractDay \/ Finish

Spec == Init /\ [][Next]_vars

\* ------------------------------------------------------------------ optimal
\* Calls with one provider assigned to one facility on a four-week horizon,
\* followed to the point the solver returns with status OPTIMAL.

FirstFacility == CHOOSE f \in Facilities : \A g \in Facilities : f <= g

\* (lambda_param, lambda_facility, lambda_bunching): the defaults of the
\* function (1.0, 1.0, 0.0), the defaults of the request (0, 0.1, 0.1) and
\* heavy spacing weights (0, 10, 10)
WeightChoices == {<<10, 10, 0>>, <<0, 1, 1>>, <<0, 100, 100>>}

SingleFacilityCall(c, m, a, w, h) ==
    [BaseArgs({FirstFacility},
              [f \in Facilities |-> IF f = FirstFacility THEN c ELSE 0], m)
        EXCEPT !.weeks = 4,
               !.alpha = a,
               !.lambda_param = w[1],
               !.lambda_facility = w[2],
               !.lambda_bunching = w[3],
               !.home_time = [f \in Facilities |-> h]]

\* small calls with a home time of 0.5 h, one with a home time of 0.01 h, the
\* call of scenario S1 (census 10, alpha 0, 5 patients per day) and the call of
\* scenario S5 (census 2, alpha 0, 2 patients per day, spacing weights 10),
\* the latter also with the first day of the horizon listed as unavailable
SingleFacilityArgs ==
    {SingleFacilityCall(MaxCensus, m, 0, w, 500) :
        m \in {1, MaxPatientsPerDay}, w \in WeightChoices}
    \cup {SingleFacilityCall(MaxCensus, MaxPatientsPerDay, 50, w, 500) :
        w \in WeightChoices}
    \cup {SingleFacilityCall(MaxCensus, MaxPatientsPerDay, 0, <<10, 10, 0>>, 10)}
    \cup {SingleFacilityCall(10, 5, 0, w, 500) : w \in WeightChoices}
    \cup {SingleFacilityCall(2, 2, 0, <<0, 100, 100>>, 500)}
    \cup {[SingleFacilityCall(2, 2, 0, <<0, 100, 100>>, 500)
              EXCEPT !.provider_unavailable_dates = {<<TargetProvider, 0>>}]}

InitOptimal ==
    /\ args \in SingleFacilityArgs
    /\ pc = "start"
    /\ working_days = <<>>
    /\ valid_pf_pairs = {}
    /\ patient_requirements = ZeroVector
    /\ availability = <<>>
    /\ solver_status = "NONE"
    /\ columns = <<>>
    /\ feasible_from = <<>>
    /\ remaining = ZeroVector
    /\ day = -1
    /\ x = ZeroVector
    /\ y = 0
    /\ z = ZeroVector
    /\ served = ZeroVector
    /\ solution = NoSolution
    /\ incumbent = {}
    /\ results = NoResult
    /\ call = NoCall
    /\ returned = NoReturn

NextOptimal ==
    BuildModel \/ Solve \/ ExtractOptimalDay \/ ExtractFeasibleDay \/ Finish

SpecOptimal == InitOptimal /\ [][NextOptimal]_vars

\* ------------------------------------------------------------------ travel

\* create_and_solve_optimization_model is not running
ModelIdle ==
    /\ args = BaseArgs(Facilities, ZeroVector, 1)
    /\ pc = "idle"
    /\ working_days = <<>>
    /\ valid_pf_pairs = {}
    /\ patient_requirements = ZeroVector
    /\ availability = <<>>
    /\ solver_status = "NONE"
    /\ columns = <<>>
    /\ feasible_from = <<>>
    /\ remaining = ZeroVector
    /\ day = -1
    /\ x = ZeroVector
    /\ y = 0
    /\ z = ZeroVector
    /\ served = ZeroVector
    /\ solution = NoSolution
    /\ incumbent = {}
    /\ results = NoResult
model_vars == <<args, pc, working_days, valid_pf_pairs, patient_requirements,
                availability, solver_status, columns, feasible_from, remaining,
                day, x, y, z, served, solution, incumbent, results>>

\* utils/optimal_travel_calculator.py.  Travel times are in thousandths of an
\* hour; a matrix is a function on (row id, column id) pairs whose value NaN
\* (no travel time is negative) stands for an empty cell.
NaN == -1

\* lines 161-185: 0.0 for a missing row, column or cell
get_travel_time(matrix, from_id, to_id) ==
    IF <<from_id, to_id>> \notin DOMAIN matrix THEN 0
    ELSE IF matrix[<<from_id, to_id>>] = NaN THEN 0
    ELSE matrix[<<from_id, to_id>>]

\* round(t, 2): to the nearest hundredth of an hour
RoundHundredths(t) == 10 * RoundHalfEven(t, 10)

\* the index a loop with "if travel_time < best" ends on (lines 55-59, 75-79):
\* the first position holding the smallest time
FirstMinimumMisplaced(times) == Len(times)
FirstMinimum(times) ==
    CHOOSE i \in DOMAIN times :
        /\ \A j \in DOMAIN times : times[i] <= times[j]
        /\ \A j \in 1 .. (i - 1) : times[j] > times[i]

\* the last facility popped instead of the nearest one
RemoveLast(seq, i) == SubSeq(seq, 1, Len(seq) - 1)
RemoveAt(seq, i) == SubSeq(seq, 1, i - 1) \o SubSeq(seq, i + 1, Len(seq))

NearestNeighbourSkipped(current_facility, remaining_facilities, facility_facility_df) == 0
\* lines 71-91: the greedy loop over remaining_facilities
RECURSIVE NearestNeighbour(_, _, _)
NearestNeighbour(current_facility, remaining_facilities, facility_facility_df) ==
    IF remaining_facilities = <<>> THEN 0
    ELSE LET times == [i \in DOMAIN remaining_facilities |->
                          get_travel_time(facility_facility_df, current_facility,
                                          remaining_facilities[i])]
             nearest_facility_index == FirstMinimum(times)
         IN  times[nearest_facility_index]
             + NearestNeighbour(remaining_facilities[nearest_facility_index],
                                RemoveAt(remaining_facilities, nearest_facility_index),
                                facility_facility_df)

\* lines 71-91: the hops of the greedy loop, each "from -> to" line of details
\* as the pair (from, to)
RECURSIVE NearestNeighbourHops(_, _, _)
NearestNeighbourHops(current_facility, remaining_facilities, facility_facility_df) ==
    IF remaining_facilities = <<>> THEN <<>>
    ELSE LET times == [i \in DOMAIN remaining_facilities |->
                          get_travel_time(facility_facility_df, current_facility,
                                          remaining_facilities[i])]
             nearest_facility_index == FirstMinimum(times)
         IN  <<(<<current_facility, remaining_facilities[nearest_facility_index]>>)>>
             \o NearestNeighbourHops(remaining_facilities[nearest_facility_index],
                                     RemoveAt(remaining_facilities, nearest_facility_index),
                                     facility_facility_df)

\* lines 22-104; details holds the pairs (from, to) of its lines
calculate_optimal_daily_travel(provider_id, facilities, pcp_facility_df, facility_facility_df) ==
    IF facilities = <<>>
    THEN [function |-> "calculate_optimal_daily_travel",
          homeTravel |-> 0, facilityTravel |-> 0, totalTravel |-> 0,
          details |-> <<>>]
    ELSE LET times == [i \in DOMAIN facilities |->
                          get_travel_time(pcp_facility_df, provider_id, facilities[i])]
             home_travel == times[FirstMinimum(times)]
             closest_facility == facilities[FirstMinimum(times)]
             facility_travel ==
                 IF Len(facilities) > 1
                 THEN NearestNeighbour(closest_facility,
                                       SelectSeq(facilities,
                                                 LAMBDA f : f /= closest_facility),
                                       facility_facility_df)
                 ELSE 0
             hops ==
                 IF Len(facilities) > 1
                 THEN NearestNeighbourHops(closest_facility,
                                           SelectSeq(facilities,
                                                     LAMBDA f : f /= closest_facility),
                                           facility_facility_df)
                 ELSE <<>>
         IN  [function |-> "calculate_optimal_daily_travel",
              homeTravel |-> RoundHundredths(home_travel),
              facilityTravel |-> RoundHundredths(facility_travel),
              totalTravel |-> RoundHundredths(home_travel + facility_travel),
              details |-> <<(<<"Home", closest_facility>>)>> \o hops]

\* the calls: one provider, lists of distinct facilities in any order, home
\* times of 0.004 h, 0.5 h or 0.7 h and hops of 0.004 h or 0.2 h, or no entry
TravelProvider == "P1"
TravelFacilities == {"F1", "F2", "F3"}
HomeTimes == {NaN, 4, 500, 700}
HopTimes == {NaN, 4, 200}
FacilityLists ==
    {l \in UNION {[1 .. n -> TravelFacilities] : n \in 0 .. Cardinality(TravelFacilities)} :
        \A i, j \in DOMAIN l : i /= j => l[i] /= l[j]}
HomeMatrices ==
    {[k \in {TravelProvider} \X TravelFacilities |-> h[k[2]]] :
        h \in [TravelFacilities -> HomeTimes]}
HopMatrices ==
    {[k \in {q \in TravelFacilities \X TravelFacilities : q[1] /= q[2]} |->
         h[{k[1], k[2]}]] :
        h \in [{q \in SUBSET TravelFacilities : Cardinality(q) = 2} -> HopTimes]}

InitTravel ==
    /\ ModelIdle
    /\ \E l \in FacilityLists, hm \in HomeMatrices, fm \in HopMatrices :
          call = [function |-> "calculate_optimal_daily_travel",
                  provider_id |-> TravelProvider, facilities |-> l,
                  pcp_facility_df |-> hm, facility_facility_df |-> fm]
    /\ returned = NoReturn

CalculateTravel ==
    /\ call.function = "calculate_optimal_daily_travel"
    /\ returned = NoReturn
    /\ returned' = calculate_optimal_daily_travel(call.provider_id, call.facilities,
                                                  call.pcp_facility_df,
                                                  call.facility_facility_df)
    /\ UNCHANGED <<call, model_vars>>

NextTravel == CalculateTravel
SpecTravel == InitTravel /\ [][NextTravel]_vars

\* ------------------------------------------------------------------ horizon

\* lines 69-93 on their own: every start date of two consecutive weeks (every
\* weekday twice) and every week count up to MaxWeeks
InitHorizon ==
    /\ ModelIdle
    /\ \E start \in 0 .. (2 * DaysInWeek - 1), w \in 0 .. MaxWeeks :
          call = [function |-> "working_days", start_monday |-> start, weeks |-> w]
    /\ returned = NoReturn

BuildHorizon ==
    /\ call.function = "working_days"
    /\ returned = NoReturn
    /\ returned' = [function |-> "working_days",
                    working_days |->
                        BuildWorkingDays(call.start_monday,
                                         call.start_monday + DaysInWeek * call.weeks)]
    /\ UNCHANGED <<call, model_vars>>

NextHorizon == BuildHorizon
SpecHorizon == InitHorizon /\ [][NextHorizon]_vars

\* ------------------------------------------------------------------ relabel

\* models/dataloader.py.  A dictionary is a function on its keys.  A key of a
\* result is a prefix and a number: "provider_1" is ["provider_", 1],
\* "facility_0" is ["facility_", 0], and the real id "P79" or "F60" is
\* ["", 79] or ["", 60].  Ids of one kind have the same number of digits, so
\* sorted() orders them as numbers.
Key(prefix, n) == [prefix |-> prefix, n |-> n]
EmptyDict == <<>>

\* lines 97-103: the sorted unique ids, numbered from 0
IndexMappings(ids) == [id \in ids |-> Cardinality({j \in ids : j < id})]

\* lines 246-247: {idx: id for id, idx in mapping.items()}
ReverseMappingDropped(mapping) == EmptyDict
ReverseMapping(mapping) ==
    [idx \in {mapping[id] : id \in DOMAIN mapping} |->
        CHOOSE id \in DOMAIN mapping : mapping[id] = idx]

\* lines 215-220
_convert_provider_key_to_real_id(provider_key, reverse_provider_mapping) ==
    IF provider_key.prefix = "provider_"
    THEN IF provider_key.n \in DOMAIN reverse_provider_mapping
         THEN Key("", reverse_provider_mapping[provider_key.n])
         ELSE provider_key
    ELSE provider_key

\* lines 222-227
_convert_facility_key_to_real_id(facility_key, reverse_facility_mapping) ==
    IF facility_key.prefix = "facility_"
    THEN IF facility_key.n \in DOMAIN reverse_facility_mapping
         THEN Key("", reverse_facility_mapping[facility_key.n])
         ELSE facility_key
    ELSE facility_key

\* a dictionary rebuilt under converted keys (the loops of lines 255-291);
\* converted maps each key of the dictionary to its new key
ReKey(dict, converted) ==
    [k \in {converted[j] : j \in DOMAIN dict} |->
        dict[CHOOSE j \in DOMAIN dict : converted[j] = k]]

Present(dict, field) == field \in DOMAIN dict /\ DOMAIN dict[field] /= {}

\* lines 229-295
convert_optimization_results_to_real_ids(result_dict, pcp_data) ==
    IF DOMAIN result_dict = {} \/ DOMAIN pcp_data = {} THEN result_dict
    ELSE LET reverse_facility_mapping == ReverseMapping(pcp_data.facility_mappings)
             reverse_provider_mapping == ReverseMapping(pcp_data.provider_mappings)
             provider(k) == _convert_provider_key_to_real_id(k, reverse_provider_mapping)
             facility(k) == _convert_facility_key_to_real_id(k, reverse_facility_mapping)
             dates(provider_data) ==
                 [date \in DOMAIN provider_data |->
                     ReKey(provider_data[date],
                           [k \in DOMAIN provider_data[date] |-> facility(k)])]
             converted_schedule ==
                 IF Present(result_dict, "schedule")
                 THEN LET outer == ReKey(result_dict.schedule,
                                         [k \in DOMAIN result_dict.schedule |->
                                             provider(k)])
                      IN  [k \in DOMAIN outer |-> dates(outer[k])]
                 ELSE result_dict.schedule
             converted_utilization ==
                 IF Present(result_dict, "provider_utilization")
                 THEN ReKey(result_dict.provider_utilization,
                            [k \in DOMAIN result_dict.provider_utilization |->
                                provider(k)])
                 ELSE result_dict.provider_utilization
             converted_travel_times ==
                 IF Present(result_dict, "daily_travel_times")
                 THEN ReKey(result_dict.daily_travel_times,
                            [k \in DOMAIN result_dict.daily_travel_times |->
                                provider(k)])
                 ELSE result_dict.daily_travel_times
         IN  [result_dict EXCEPT !.schedule = converted_schedule,
                             !.provider_utilization = converted_utilization,
                             !.daily_travel_times = converted_travel_times]

\* lines 325-351: the data of the first provider under the selected id
UnderSelected(dict, selected_provider_id) ==
    IF DOMAIN dict = {} THEN dict
    ELSE [k \in {selected_provider_id} |->
             dict[CHOOSE j \in DOMAIN dict : TRUE]]

\* lines 298-353
ConvertOnly(result_dict, pcp_data, selected_provider_id) ==
    convert_optimization_results_to_real_ids(result_dict, pcp_data)
convert_single_provider_results_to_real_ids(result_dict, pcp_data, selected_provider_id) ==
    LET converted_results == convert_optimization_results_to_real_ids(result_dict, pcp_data)
    IN  [converted_results EXCEPT
            !.schedule = UnderSelected(@, selected_provider_id),
            !.provider_utilization = UnderSelected(@, selected_provider_id),
            !.daily_travel_times = UnderSelected(@, selected_provider_id)]

\* the catalogs: two providers and two facilities out of three ids each, or
\* the empty dictionary of a failed load
ProviderIds == {12, 45, 79}
FacilityIds == {14, 60, 71}
Catalogs ==
    {[provider_mappings |-> IndexMappings(ps), facility_mappings |-> IndexMappings(fs)] :
        ps \in {q \in SUBSET ProviderIds : Cardinality(q) = providers},
        fs \in {q \in SUBSET FacilityIds : Cardinality(q) = Cardinality(Facilities)}}

\* the results of a successful single-provider solve (lines 623-712) of
\* provider p over two dates: some facilities with patients on each date
SolvedResults ==
    {[status |-> "Optimal",
      schedule |-> [k \in {Key("provider_", p)} |->
                       [date \in {d \in DOMAIN days : days[d] /= {}} |->
                           [f \in {Key("facility_", i) : i \in days[date]} |->
                               f.n + 1]]],
      provider_utilization |-> [k \in {Key("provider_", p)} |->
                                   Cardinality(UNION {days[d] : d \in DOMAIN days})],
      daily_travel_times |-> [k \in {Key("provider_", p)} |->
                                 [date \in DOMAIN days |->
                                     Cardinality(days[date])]]] :
        p \in Providers, days \in [{2, 3} -> SUBSET Facilities]}

InitRelabel ==
    /\ ModelIdle
    /\ \E r \in SolvedResults, c \in Catalogs \cup {EmptyDict}, id \in ProviderIds :
          call = [function |-> "convert", results |-> r, pcp_data |-> c,
                  selected_provider_id |-> Key("", id)]
    /\ returned = NoReturn

\* convert_optimization_results_to_real_ids on the results of the solve
Convert ==
    /\ call.function = "convert"
    /\ returned = NoReturn
    /\ returned' = [function |-> "convert_optimization_results_to_real_ids",
                    times |-> 1,
                    before |-> call.results,
                    results |-> convert_optimization_results_to_real_ids(
                                    call.results, call.pcp_data)]
    /\ UNCHANGED <<call, model_vars>>

\* ... and once more on what it returned
ConvertAgain ==
    /\ returned.function = "convert_optimization_results_to_real_ids"
    /\ returned.times = 1
    /\ returned' = [returned EXCEPT
                       !.times = 2,
                       !.before = returned.results,
                       !.results = convert_optimization_results_to_real_ids(
                                       returned.results, call.pcp_data)]
    /\ UNCHANGED <<call, model_vars>>

ConvertSingle ==
    /\ call.function = "convert"
    /\ returned = NoReturn
    /\ returned' = [function |-> "convert_single_provider_results_to_real_ids",
                    results |-> convert_single_provider_results_to_real_ids(
                                    call.results, call.pcp_data,
                                    call.selected_provider_id)]
    /\ UNCHANGED <<call, model_vars>>

NextRelabel == Convert \/ ConvertAgain \/ ConvertSingle
SpecRelabel == InitRelabel /\ [][NextRelabel]_vars

\* ------------------------------------------------------------------ endpoint

\* app.py, run_optimization_endpoint (lines 299-568), one request per behaviour.

\* model lines 33-52: the parameters of create_and_solve_optimization_model
ModelParameters ==
    {"providers", "facilities", "weeks", "days_per_week", "max_patients_per_day",
     "patient_data", "distance_data", "business_line", "target_provider",
     "pcp_facility_data", "lambda_param", "lambda_facility", "lambda_bunching",
     "alpha", "facility_visit_window", "provider_unavailable_dates",
     "required_visits", "forbidden_visits", "start_monday", "weekly_availability"}

\* lines 357-372 (and 468-483): the keyword arguments of the endpoint's call
EndpointKeywords ==
    {"providers", "facilities", "business_line", "census_month", "target_provider",
     "pcp_facility_data", "patient_data", "distance_data", "max_patients_per_day",
     "lambda_param", "lambda_facility", "alpha", "facility_visit_window",
     "provider_unavailable_dates"}

\* the JSON bodies: none, or a business line and a census month that the data
\* holds or not, a mode, a selected provider (the empty set for none, else
\* the number of an id that is in the catalog or not) and numbers that int()
\* and float() accept or not
Requests ==
    {[json |-> FALSE]} \cup
    [json : {TRUE},
     business_line : {"known", "unknown"},
     census_month : {"known", "unknown"},
     optimization_mode : {"single_provider", "full_business_line"},
     selected_provider : {{}} \cup {{id} : id \in ProviderIds},
     numeric : BOOLEAN,
     max_patients_per_day : {1, MaxPatientsPerDay}]
CatalogProviders == {12, 79}

\* the exception that ends the try block of lines 306-558, "none" if the
\* block reaches a return statement
Raised(request) ==
    IF ~request.json THEN "AttributeError"                    \* line 310
    ELSE IF ~request.numeric THEN "ValueError"                \* lines 314-320
    ELSE IF request.optimization_mode = "single_provider"
            /\ request.selected_provider /= {}                \* line 338
    THEN IF request.business_line = "unknown" THEN "KeyError" \* line 345, {} loaded
         ELSE IF ~(request.selected_provider \subseteq CatalogProviders)
         THEN "KeyError"                                      \* line 345
         ELSE IF ~(EndpointKeywords \subseteq ModelParameters)
         THEN "TypeError"                                     \* line 357
         ELSE "none"
    ELSE IF request.business_line = "unknown" THEN "ValueError"       \* line 429
         ELSE IF request.census_month = "unknown" THEN "ValueError"   \* line 435
         ELSE IF ~(EndpointKeywords \subseteq ModelParameters)
         THEN "ValueError"               \* lines 507-510 swallow the TypeError, 515
         ELSE "none"

\* lines 560-568
ErrorResponse(e) ==
    [function |-> "run_optimization_endpoint",
     status_code |-> 500,
     body |-> [success |-> FALSE, error |-> e, traceback |-> "Traceback"]]

\* lines 375-417 (and 519-558): whatever the model returned, wrapped as a success
SuccessResponse(request, model_results) ==
    [function |-> "run_optimization_endpoint",
     status_code |-> 200,
     body |-> [success |-> TRUE,
               results |-> [optimization_mode |-> request.optimization_mode,
                            status |-> model_results.status,
                            schedule |-> model_results.schedule,
                            provider_utilization |-> model_results.provider_utilization,
                            daily_travel_times |-> model_results.daily_travel_times],
               config_used |-> request]]

InitEndpoint ==
    /\ ModelIdle
    /\ \E request \in Requests :
          call = [function |-> "run_optimization_endpoint", request |-> request]
    /\ returned = NoReturn

run_optimization_endpoint ==
    /\ call.function = "run_optimization_endpoint"
    /\ returned = NoReturn
    /\ IF Raised(call.request) /= "none"
       THEN returned' = ErrorResponse(Raised(call.request))
       ELSE \E r \in SolvedResults, id \in call.request.selected_provider,
               c \in {k \in Catalogs : DOMAIN k.provider_mappings = CatalogProviders} :
               returned' = SuccessResponse(
                               call.request,
                               convert_single_provider_results_to_real_ids(
                                   r, c, Key("", id)))
    /\ UNCHANGED <<call, model_vars>>

NextEndpoint == run_optimization_endpoint
SpecEndpoint == InitEndpoint /\ [][NextEndpoint]_vars

\* ------------------------------------------------------------------ travel report

\* model lines 629-677 and 705-712 on their own: the travel figures that are
\* read from the z values of a solution, for every choice of the facilities
\* visited on each of ReportDays days.
ReportDays == 2

\* lines 616-617: idx_to_facility, the facility ids in index order
FacilityOrder == <<"F1", "F2", "F3">>

\* line 649: the visited facilities of a day, in index order
visited_facilities(visits) == SelectSeq(FacilityOrder, LAMBDA f : f \in visits)

\* the day's travel taken from the calculator's own total
DayTravelFromTotal(optimal_result) == optimal_result.totalTravel

\* line 675: day_travel = day_home_to_facility + day_facility_to_facility
DayTravel(optimal_result) ==
    optimal_result.homeTravel + optimal_result.facilityTravel

\* the tables: every time 0.004 h, or home times of 0.5 h, 0.7 h and none and
\* hops of 0.2 h, 0.004 h and none
ReportHomeMatrices ==
    {m \in HomeMatrices :
        \/ \A k \in DOMAIN m : m[k] = 4
        \/ /\ m[<<TravelProvider, "F1">>] = 500
           /\ m[<<TravelProvider, "F2">>] = 700
           /\ m[<<TravelProvider, "F3">>] = NaN}
ReportHopMatrices ==
    {m \in HopMatrices :
        \/ \A k \in DOMAIN m : m[k] = 4
        \/ /\ m[<<"F1", "F2">>] = 200
           /\ m[<<"F1", "F3">>] = 4
           /\ m[<<"F2", "F3">>] = NaN}

InitReport ==
    /\ ModelIdle
    /\ \E visits \in [0 .. (ReportDays - 1) -> SUBSET TravelFacilities],
          hm \in ReportHomeMatrices, fm \in ReportHopMatrices :
          call = [function |-> "travel_report", z |-> visits,
                  provider_id |-> TravelProvider,
                  pcp_facility_df |-> hm, facility_facility_df |-> fm]
    /\ returned = NoReturn

\* lines 626-640: the totals start at 0 and every horizon day gets the entry 0.0
StartReport ==
    /\ call.function = "travel_report"
    /\ returned = NoReturn
    /\ returned' = [function |-> "travel_report",
                    d |-> 0,
                    finished |-> FALSE,
                    daily_travel_times |-> [d \in DOMAIN call.z |-> 0],
                    total_travel_time |-> 0,
                    total_home_to_facility |-> 0,
                    total_facility_to_facility |-> 0,
                    home_to_facility_travel |-> 0,
                    facility_to_facility_travel |-> 0]
    /\ UNCHANGED <<call, model_vars>>

\* lines 643-677, one day d
ReportDay ==
    /\ returned.function = "travel_report"
    /\ ~returned.finished
    /\ returned.d \in DOMAIN call.z
    /\ LET visited == visited_facilities(call.z[returned.d])
           optimal_result ==
               IF visited /= <<>>
               THEN calculate_optimal_daily_travel(call.provider_id, visited,
                                                   call.pcp_facility_df,
                                                   call.facility_facility_df)
               ELSE [function |-> "calculate_optimal_daily_travel",
                     homeTravel |-> 0, facilityTravel |-> 0, totalTravel |-> 0,
                     details |-> <<>>]
       IN  returned' =
               [returned EXCEPT
                   !.d = @ + 1,
                   !.total_home_to_facility = @ + optimal_result.homeTravel,
                   !.total_facility_to_facility = @ + optimal_result.facilityTravel,
                   !.daily_travel_times[returned.d] =
                       RoundHundredths(DayTravel(optimal_result)),
                   !.total_travel_time = @ + DayTravel(optimal_result)]
    /\ UNCHANGED <<call, model_vars>>

\* lines 708-712: the rounded totals of the result dictionary
FinishReport ==
    /\ returned.function = "travel_report"
    /\ ~returned.finished
    /\ returned.d \notin DOMAIN call.z
    /\ returned' =
           [returned EXCEPT
               !.finished = TRUE,
               !.total_travel_time = RoundHundredths(@),
               !.home_to_facility_travel =
                   RoundHundredths(returned.total_home_to_facility),
               !.facility_to_facility_travel =
                   RoundHundredths(returned.total_facility_to_facility)]
    /\ UNCHANGED <<call, model_vars>>

NextReport == StartReport \/ ReportDay \/ FinishReport
SpecReport == InitReport /\ [][NextReport]_vars

\* ------------------------------------------------------------------ properties

\* a schedule is being read or has been returned, and day is one of its days
ReadingDay == pc \in {"extract", "done"} /\ day >= 0
Returned == pc = "done" /\ "schedule" \in results.keys

\* the availability inputs, read directly from the arguments
BlockedWeekday(d) ==
    \E n \in DOMAIN args.weekly_availability :
        n = DayDate(d) % DaysInWeek /\ ~args.weekly_availability[n]
ListedUnavailable(p, d) == <<p, DayDate(d)>> \in args.provider_unavailable_dates
UnavailableDay(p, d) == BlockedWeekday(d) \/ ListedUnavailable(p, d)
Assigned(p, f) == <<p, f>> \in args.provider_facility_pairs
AdjustedDemand(f) == AdjustedRequirement(args.patient_counts[f], args.alpha)
TotalAdjustedDemand == SumOver(Facilities, [f \in Facilities |-> AdjustedDemand(f)])
EffectiveCapacity ==
    Cardinality({d \in Days : ~UnavailableDay(args.target_provider, d)})
        * args.max_patients_per_day
PatientsOfDay == SumOver(DOMAIN DayAssignments(args.target_provider, x),
                         DayAssignments(args.target_provider, x))

\* C1: in a returned schedule (status Optimal or Feasible), for every facility
\* with positive adjusted demand and an assigned active provider, the patients
\* scheduled there over the horizon equal the adjusted demand.
CoverageEquality ==
    (Returned /\ results.status \in {"Optimal", "Feasible (Time Limit)"}) =>
        \A f \in Facilities :
            (AdjustedDemand(f) > 0 /\ \E p \in active_providers : Assigned(p, f))
                => served[f] = AdjustedDemand(f)

CoverageEqualityWitness ==
    /\ Returned
    /\ \A f \in Facilities : Assigned(args.target_provider, f)
    /\ \A f \in Facilities : AdjustedDemand(f) > 1 /\ served[f] = AdjustedDemand(f)

\* C2: on every day of a returned schedule the patients of the provider,
\* summed over the facilities, do not exceed max_patients_per_day.
DailyCap ==
    ReadingDay => PatientsOfDay <= args.max_patients_per_day

DailyCapWitness ==
    /\ ReadingDay
    /\ PatientsOfDay = args.max_patients_per_day
    /\ Cardinality(DOMAIN DayAssignments(args.target_provider, x)) > 1

\* C3: y is 0 on every day blocked by the weekly availability or listed among
\* the provider's unavailable dates, and a day with y = 0 carries no patients.
AvailabilityRespect ==
    ReadingDay =>
        /\ UnavailableDay(args.target_provider, day) => y = 0
        /\ y = 0 => PatientsOfDay = 0 /\ \A f \in Facilities : x[f] = 0

AvailabilityRespectWitness ==
    /\ ReadingDay
    /\ UnavailableDay(args.target_provider, day)
    /\ y = 0

\* C4: in every returned schedule every supplied required triple (p, f, d) has
\* x[p,f,d] >= 1 and every supplied forbidden triple has z[p,f,d] = 0 and no
\* patients.
RequiredForbiddenHonoured ==
    /\ Returned =>
          \A v \in args.required_visits :
              v[1] \in active_providers => v[3] \in Days
    /\ ReadingDay =>
          /\ \A v \in args.required_visits :
                (v[1] \in active_providers /\ v[3] = day) => x[v[2]] >= 1
          /\ \A v \in args.forbidden_visits :
                (v[1] \in active_providers /\ v[3] = day) =>
                    z[v[2]] = 0 /\ x[v[2]] = 0

\* C5: a (provider, facility) pair that is not an assignment has x = 0 and
\* z = 0 on every day, so the schedule lists a provider only at its facilities.
AssignmentRespect ==
    ReadingDay =>
        \A f \in Facilities :
            ~Assigned(args.target_provider, f) =>
                /\ x[f] = 0
                /\ z[f] = 0
                /\ f \notin DOMAIN DayAssignments(args.target_provider, x)

AssignmentRespectWitness ==
    /\ ReadingDay
    /\ \E f \in Facilities : ~Assigned(args.target_provider, f)
    /\ PatientsOfDay > 0

\* C6: when the total adjusted demand exceeds the effective capacity (available
\* horizon days times max_patients_per_day) the request is rejected before the
\* solver is invoked, with a message that reports demand and capacity.
CapacityPreflight ==
    (pc \in {"extract", "done"} /\ TotalAdjustedDemand > EffectiveCapacity) =>
        /\ solver_status = "NONE"
        /\ "schedule" \notin results.keys
        /\ {<<"demand", TotalAdjustedDemand>>, <<"capacity", EffectiveCapacity>>}
               \subseteq results.names

\* C7: a required visit of the provider on a day the provider is unavailable
\* is rejected with a message that names the facility and the date, and no
\* schedule is produced.
RequiredOnUnavailableDayRejected ==
    pc = "done" =>
        \A v \in args.required_visits :
            (v[1] \in active_providers /\ v[3] \in Days
                /\ UnavailableDay(v[1], v[3])) =>
                /\ "schedule" \notin results.keys
                /\ {<<"facility", v[2]>>, <<"date", DayDate(v[3])>>}
                       \subseteq results.names

\* C8: without required visits, when the total adjusted demand is at most the
\* available days times max_patients_per_day, the solver cannot report the
\* model infeasible.
PreflightSoundness ==
    (pc \in {"extract", "done"} /\ solver_status /= "NONE"
        /\ args.required_visits = {} /\ args.forbidden_visits = {}
        /\ TotalAdjustedDemand <= EffectiveCapacity) =>
        /\ solver_status /= "INFEASIBLE"
        /\ results.status /= "Infeasible"

PreflightSoundnessWitness ==
    /\ Returned
    /\ args.required_visits = {} /\ args.forbidden_visits = {}
    /\ \E d \in Days : UnavailableDay(args.target_provider, d)
    /\ TotalAdjustedDemand = EffectiveCapacity
    /\ TotalAdjustedDemand > 0

\* C9: the result contains a schedule exactly when it reports Optimal or
\* Feasible; when the solver finds no solution or an exception is raised the
\* result carries an error status and a message and contains no schedule.
ScheduleOnlyWithSolution ==
    pc = "done" =>
        /\ "schedule" \in results.keys
               <=> results.status \in {"Optimal", "Feasible (Time Limit)"}
        /\ "schedule" \in results.keys => SolutionFound(solver_status)
        /\ (SolutionFound(solver_status) /\ "exception" \notin {n[1] : n \in results.names})
               => "schedule" \in results.keys
        /\ "schedule" \notin results.keys =>
               /\ results.status \in {"Infeasible", "Unbounded", "Error"}
               /\ "message" \in results.keys
               /\ results.message /= ""

ScheduleOnlyWithSolutionWitness ==
    /\ pc = "done"
    /\ solver_status = "INFEASIBLE"
    /\ results.status = "Infeasible"
    /\ "schedule" \notin results.keys

\* C10: a required visit that names an unknown facility, a day index outside
\* 0..D-1 or a pair that is not an assignment is rejected with an error before
\* the MIP is built; it is never dropped.
InvalidRequiredVisit(v) ==
    \/ v[2] \notin Facilities
    \/ v[3] \notin Days
    \/ ~Assigned(v[1], v[2])

InvalidRequiredVisitRejected ==
    (pc \in {"extract", "done"}
        /\ \E v \in args.required_visits : InvalidRequiredVisit(v)) =>
        /\ solver_status = "NONE"
        /\ "schedule" \notin results.keys
        /\ pc = "done" => results.status = "Error"

\* one provider assigned to one facility, a four-week horizon with every day
\* available, no required or forbidden visits
SingleFacilityCase ==
    /\ pc = "done"
    /\ Cardinality(valid_pf_pairs) = 1
    /\ \A pf \in valid_pf_pairs : TotalAdjustedDemand = AdjustedDemand(pf[2])
    /\ total_days = 20
    /\ \A d \in Days : ~UnavailableDay(args.target_provider, d)
    /\ args.required_visits = {} /\ args.forbidden_visits = {}
SingleFacilitySolved == SingleFacilityCase /\ solver_status = "OPTIMAL"
TheFacility == CHOOSE f \in Facilities : IsValidPair(args.target_provider, f)
DaysNeeded ==
    (TotalAdjustedDemand + args.max_patients_per_day - 1)
        \div args.max_patients_per_day
ServedOnDaysNeeded ==
    /\ results.status = "Optimal"
    /\ results.total_patients_served = TotalAdjustedDemand
    /\ Cardinality(solution.patient_days) = DaysNeeded

SpacingCase ==
    /\ SingleFacilitySolved
    /\ TotalAdjustedDemand = 2
    /\ args.max_patients_per_day = 2
    /\ args.lambda_facility = 100
    /\ args.lambda_bunching = 100
    /\ args.home_time[TheFacility] < 100000

\* C13 as stated: in scenario S5 the optimal solution visits the facility on a
\* single day and leaves sparse-visit slacks positive.
SingleVisitSuffices ==
    SpacingCase =>
        /\ Cardinality(solution.visited[TheFacility]) = 1
        /\ GapSlack(solution.visited[TheFacility]) > 0

\* C13: in scenario S5, for a home travel time below 100 h, the optimal
\* solution visits the facility on exactly two days that are ten horizon days
\* apart, so that every sparse-visit window holds a visit and no slack is
\* positive.
TwoVisitsTenDaysApart ==
    SpacingCase =>
        /\ \E d \in Days :
              solution.visited[TheFacility] = {d, (d + 10) % total_days}
        /\ Cardinality(solution.visited[TheFacility]) = 2
        /\ \A t \in Days :
              Window(t, args.facility_visit_window)
                  \cap solution.visited[TheFacility] /= {}

TwoVisitsWitness ==
    /\ SpacingCase
    /\ Cardinality(solution.visited[TheFacility]) = 2
    /\ Cardinality(solution.patient_days) = 1

\* the forbidden visits hold facility f on every horizon day that is not a Monday
MondayCompiled(f) ==
    /\ Assigned(args.target_provider, f)
    /\ \A d \in Days :
          DayDate(d) % DaysInWeek /= 0 =>
              <<args.target_provider, f, d>> \in args.forbidden_visits

\* C12: when the forbidden visits hold a facility on every horizon day that is
\* not a Monday, every date on which the schedule lists patients at that
\* facility is a Monday, whatever the demands of the other facilities are.
MondayOnly ==
    \A f \in Facilities :
        (ReadingDay /\ MondayCompiled(f)
            /\ f \in DOMAIN DayAssignments(args.target_provider, x)) =>
            DayDate(day) % DaysInWeek = 0

\* patients at the Monday facility on a Monday that is not the first horizon
\* day, while another facility with demand is served on another day
MondayOnlyWitness ==
    /\ pc = "done" /\ "schedule" \in results.keys
    /\ \E f \in Facilities :
          /\ MondayCompiled(f)
          /\ served[f] > 0
          /\ \E g \in Facilities \ {f} : served[g] > 0
    /\ DayDate(0) % DaysInWeek /= 0

\* the visited facilities of a finished call, its home times and hop times
TravelDone == returned.function = "calculate_optimal_daily_travel"
Visited == {call.facilities[i] : i \in DOMAIN call.facilities}
HomeTime(f) == get_travel_time(call.pcp_facility_df, call.provider_id, f)
Hop(f, g) == get_travel_time(call.facility_facility_df, f, g)
MinHomeTime == CHOOSE t \in {HomeTime(f) : f \in Visited} :
                   \A f \in Visited : t <= HomeTime(f)

\* the hop sums of the nearest-neighbour tours that start at facility c and
\* move through the facilities of S, each time to a nearest one
RECURSIVE TourSums(_, _)
TourSums(c, S) ==
    IF S = {} THEN {0}
    ELSE UNION {{Hop(c, f) + t : t \in TourSums(f, S \ {f})} :
                   f \in {f \in S : \A g \in S : Hop(c, f) <= Hop(c, g)}}
ClosestTourSums ==
    UNION {TourSums(c, Visited \ {c}) :
              c \in {f \in Visited : HomeTime(f) = MinHomeTime}}

\* C14 as stated: homeTravel is the minimum home time over the visited
\* facilities, facilityTravel the hop sum of a nearest-neighbour tour from a
\* closest facility, totalTravel = homeTravel + facilityTravel; all three are
\* 0 for an empty list.
ReportedTravel ==
    TravelDone =>
        IF call.facilities = <<>>
        THEN returned.homeTravel = 0 /\ returned.facilityTravel = 0
             /\ returned.totalTravel = 0
        ELSE /\ returned.homeTravel = MinHomeTime
             /\ returned.facilityTravel \in ClosestTourSums
             /\ returned.totalTravel
                    = returned.homeTravel + returned.facilityTravel

\* C14: homeTravel is the minimum home time rounded to two decimals,
\* facilityTravel the hop sum of a nearest-neighbour tour from a closest
\* facility rounded to two decimals, and totalTravel the sum of the unrounded
\* two rounded to two decimals (so it can differ from homeTravel +
\* facilityTravel by 0.01); a facility without a matrix entry counts as 0 h
\* away; all three are 0 for an empty list.
ReportedTravelRounded ==
    TravelDone =>
        IF call.facilities = <<>>
        THEN returned.homeTravel = 0 /\ returned.facilityTravel = 0
             /\ returned.totalTravel = 0
        ELSE /\ returned.homeTravel = RoundHundredths(MinHomeTime)
             /\ \E t \in ClosestTourSums :
                   /\ returned.facilityTravel = RoundHundredths(t)
                   /\ returned.totalTravel = RoundHundredths(MinHomeTime + t)

\* scenario S6: F1 0.5 h and F2 0.7 h from home, 0.2 h apart, listed with the
\* farther facility first
ReportedTravelWitness ==
    /\ TravelDone
    /\ call.facilities = <<"F2", "F1">>
    /\ HomeTime("F1") = 500 /\ HomeTime("F2") = 700 /\ Hop("F1", "F2") = 200
    /\ returned.homeTravel = 500
    /\ returned.facilityTravel = 200
    /\ returned.totalTravel = 700

HorizonBuilt == returned.function = "working_days"

\* C15: for any start date, Monday or not, and any week count W the horizon is
\* the ascending list of exactly the Monday-to-Friday dates among the W * 7
\* calendar days from the start date, and its length is exactly 5 * W.
HorizonLength ==
    HorizonBuilt =>
        LET h == returned.working_days
            first == call.start_monday
            last == call.start_monday + DaysInWeek * call.weeks - 1
        IN  /\ \A i \in DOMAIN h : \A j \in DOMAIN h : i < j => h[i] < h[j]
            /\ {h[i] : i \in DOMAIN h}
                   = {d \in first .. last : d % DaysInWeek \notin {5, 6}}
            /\ Len(h) = 5 * call.weeks

\* a four-week horizon asked for from a Saturday starts on the Monday after
HorizonLengthWitness ==
    /\ HorizonBuilt
    /\ call.start_monday % DaysInWeek = 5
    /\ call.weeks = 4
    /\ Len(returned.working_days) = 20
    /\ returned.working_days[1] = call.start_monday + 2

\* id-to-index and index-to-id of the catalog of the call
ProviderIndex == call.pcp_data.provider_mappings
FacilityIndex == call.pcp_data.facility_mappings
HasCatalog == call.function = "convert" /\ DOMAIN call.pcp_data /= {}
SolvedKey == CHOOSE k \in DOMAIN call.results.schedule : TRUE
SolvedId == Key("", ReverseMapping(ProviderIndex)[SolvedKey.n])
FacilityId(k) == Key("", ReverseMapping(FacilityIndex)[k.n])
\* the schedule of the solved provider with facility keys replaced by ids
SolvedSchedule ==
    LET data == call.results.schedule[SolvedKey]
    IN  [date \in DOMAIN data |->
            [id \in {FacilityId(k) : k \in DOMAIN data[date]} |->
                data[date][CHOOSE k \in DOMAIN data[date] : FacilityId(k) = id]]]

\* C16: for every provider and facility index of the catalog, mapping the
\* index to its id and back gives the same index; a converted result carries
\* the ids of its indices; and converting a converted result again leaves it
\* unchanged.
RelabelRoundTrip ==
    /\ HasCatalog =>
          /\ \A i \in DOMAIN ReverseMapping(ProviderIndex) :
                ProviderIndex[ReverseMapping(ProviderIndex)[i]] = i
          /\ \A i \in DOMAIN ReverseMapping(FacilityIndex) :
                FacilityIndex[ReverseMapping(FacilityIndex)[i]] = i
          /\ DOMAIN ReverseMapping(ProviderIndex) = Providers
          /\ DOMAIN ReverseMapping(FacilityIndex) = Facilities
    /\ (HasCatalog /\ returned.function = "convert_optimization_results_to_real_ids") =>
          /\ returned.times = 1 =>
                /\ DOMAIN returned.results.schedule = {SolvedId}
                /\ ProviderIndex[SolvedId.n] = SolvedKey.n
                /\ returned.results.schedule[SolvedId] = SolvedSchedule
          /\ returned.times = 2 => returned.results = returned.before

\* a result with patients at both facilities converted twice
RelabelRoundTripWitness ==
    /\ HasCatalog
    /\ returned.function = "convert_optimization_results_to_real_ids"
    /\ returned.times = 2
    /\ returned.results /= call.results
    /\ \E date \in DOMAIN SolvedSchedule : Cardinality(DOMAIN SolvedSchedule[date]) = 2

\* C17: after convert_single_provider_results_to_real_ids the schedule, the
\* provider_utilization and the daily_travel_times of a successful
\* single-provider result each have exactly one outer key, the requested
\* provider id, and under it the solved provider's data with facility keys
\* replaced by facility ids.
SingleProviderKey ==
    (HasCatalog /\ returned.function = "convert_single_provider_results_to_real_ids") =>
        LET id == call.selected_provider_id IN
        /\ DOMAIN returned.results.schedule = {id}
        /\ DOMAIN returned.results.provider_utilization = {id}
        /\ DOMAIN returned.results.daily_travel_times = {id}
        /\ returned.results.schedule[id] = SolvedSchedule
        /\ returned.results.provider_utilization[id]
               = call.results.provider_utilization[SolvedKey]
        /\ returned.results.daily_travel_times[id]
               = call.results.daily_travel_times[SolvedKey]

\* the requested id is not the id of the solved provider's index
SingleProviderKeyWitness ==
    /\ HasCatalog
    /\ returned.function = "convert_single_provider_results_to_real_ids"
    /\ call.selected_provider_id /= SolvedId
    /\ DOMAIN returned.results.schedule = {call.selected_provider_id}
    /\ \E date \in DOMAIN SolvedSchedule : Cardinality(DOMAIN SolvedSchedule[date]) = 2

Answered == returned.function = "run_optimization_endpoint"
WellFormedSingleProvider ==
    /\ call.request.json
    /\ call.request.numeric
    /\ call.request.business_line = "known"
    /\ call.request.census_month = "known"
    /\ call.request.optimization_mode = "single_provider"
    /\ call.request.selected_provider /= {}
    /\ call.request.selected_provider \subseteq CatalogProviders
HasMessage == DOMAIN returned.body \cap {"message", "error"} /= {}

\* C18: a well-formed single-provider request (known business line, known
\* provider, census month present) is answered with success = true and a
\* results block holding the status and the schedule.
SuccessEnvelope ==
    (Answered /\ WellFormedSingleProvider) =>
        /\ returned.body.success
        /\ "results" \in DOMAIN returned.body
        /\ {"status", "schedule", "daily_travel_times"}
               \subseteq DOMAIN returned.body.results

\* C19: a validation failure (here an unknown provider or business line, or a
\* number that does not parse) is answered with HTTP 400 and a message, an
\* internal failure with HTTP 500, and no response with success = true
\* carries a solver error status.
ErrorTaxonomy ==
    Answered =>
        /\ (/\ call.request.json
            /\ \/ ~call.request.numeric
               \/ call.request.business_line = "unknown"
               \/ /\ call.request.optimization_mode = "single_provider"
                  /\ ~(call.request.selected_provider \subseteq CatalogProviders)) =>
               returned.status_code = 400 /\ HasMessage
        /\ ~call.request.json => returned.status_code = 500
        /\ returned.body.success =>
               returned.body.results.status \in {"Optimal", "Feasible (Time Limit)"}

\* C20: every error response has success = false and a user-visible message
\* and holds no stack trace.
ErrorEnvelope ==
    (Answered /\ returned.status_code >= 400) =>
        /\ ~returned.body.success
        /\ HasMessage
        /\ "traceback" \notin DOMAIN returned.body

MinOf(S) == CHOOSE m \in S : \A n \in S : m <= n
\* the shortest way from facility c through all the facilities of S
RECURSIVE BestFrom(_, _)
BestFrom(c, S) ==
    IF S = {} THEN 0
    ELSE MinOf({Hop(c, f) + BestFrom(f, S \ {f}) : f \in S})
\* the exact optimal tour: the minimum over all visiting orders of
\* home-to-first plus the consecutive hops
ExactTour == MinOf({HomeTime(f) + BestFrom(f, Visited \ {f}) : f \in Visited})
\* the value of the day in the MIP (model lines 375-391, 528-538): the largest
\* home time of a visited facility plus the hops of all ordered pairs
ProxyValue ==
    LET pairs == {q \in Visited \X Visited : q[1] /= q[2]}
    IN  MaxOver(Visited, [f \in Visited |-> HomeTime(f)])
        + SumOver(pairs, [q \in pairs |-> Hop(q[1], q[2])])

\* C21 as stated: the reported greedy-tour day total is at most the travel
\* time of an exact optimal tour and at least the MIP proxy value of the day.
TravelBounds ==
    (TravelDone /\ call.facilities /= <<>>) =>
        /\ returned.totalTravel <= RoundHundredths(ExactTour)
        /\ returned.totalTravel >= RoundHundredths(ProxyValue)

\* C21: the bounds hold the other way round: the reported greedy-tour day
\* total is at least the travel time of an exact optimal tour (the greedy
\* tour is one of the visiting orders) and at most the MIP proxy value of the
\* day (largest home time plus the hops of all ordered pairs), each rounded
\* to two decimals like the reported total.
TravelBoundsReversed ==
    (TravelDone /\ call.facilities /= <<>>) =>
        /\ returned.totalTravel >= RoundHundredths(ExactTour)
        /\ returned.totalTravel <= RoundHundredths(ProxyValue)

\* three facilities where the greedy tour is longer than the best tour and
\* shorter than the proxy
TravelBoundsWitness ==
    /\ TravelDone
    /\ Cardinality(Visited) = 3
    /\ returned.totalTravel > RoundHundredths(ExactTour)
    /\ returned.totalTravel < RoundHundredths(ProxyValue)

Solved == pc \in {"extract", "done"} /\ solver_status /= "NONE"
\* how often day d occurs among the days (t + j) mod D, j = 0 .. T - 1
Occurrences(t, T, d) ==
    Cardinality({j \in 0 .. (T - 1) : (t + j) % total_days = d})

\* C23: for every window start t in 0..D-1 and both window lengths (the
\* configured facility_visit_window and T_bun = 7), the coefficient of
\* z[p,f,d] in the window constraint of t is the number of j in 0..T-1 with
\* (t + j) mod D = d: each term is counted once per j, also when the window is
\* longer than the horizon.
CircularWindows ==
    Solved =>
        \A T \in {args.facility_visit_window, T_bunching} :
            \A t \in Days : \A d \in Days :
                (IF d \in Window(t, T) THEN 1 ELSE 0) = Occurrences(t, T, d)

\* quick_optimize_ortools.py lines 50-72 and app.py line 378: the raw census
\* total of the provider, which line 390 reports as total_patient_demand
provider_demand == SumOver(Facilities, args.patient_counts)

\* C24: the demand is buffered exactly once: the requirement of each facility is
\* max(0, round(census * (1 + alpha))), the total demand is the sum of these
\* values, and the total_patient_demand that the single-provider path reports
\* is that sum, which a fully covering schedule serves.
OnceBufferedDemand ==
    Returned =>
        /\ \A f \in Facilities : patient_requirements[f] = AdjustedDemand(f)
        /\ results.total_patient_demand = TotalAdjustedDemand
        /\ provider_demand = TotalAdjustedDemand
        /\ (\A f \in Facilities : served[f] = patient_requirements[f])
               => provider_demand = results.total_patients_served

\* app.py line 450: sorted(pcp_data['unique_providers'])
RECURSIVE SortedProviders(_)
SortedProviders(ids) ==
    IF ids = {} THEN <<>>
    ELSE LET first == MinOf(ids) IN <<first>> \o SortedProviders(ids \ {first})

\* app.py lines 468-483: the call of the core; Python binds the keyword
\* arguments before the body of the function runs
CoreCall ==
    IF EndpointKeywords \subseteq ModelParameters THEN "ran" ELSE "TypeError"

\* app.py lines 445-447
NoRuns ==
    [attempted |-> <<>>, core_runs |-> 0, provider_results |-> <<>>,
     successful_optimizations |-> 0, failed_optimizations |-> 0]

\* app.py lines 450-510: one pass of the loop for each provider id;
\* status_of[id] is the status the core returns for the provider if it runs
RECURSIVE ProviderLoop(_, _, _)
ProviderLoop(ids, run, status_of) ==
    IF ids = <<>> THEN run
    ELSE LET provider_id == Head(ids)
             tried == [run EXCEPT !.attempted = Append(@, provider_id)]
         IN ProviderLoop(
                Tail(ids),
                IF CoreCall = "TypeError"                     \* lines 507-510
                THEN [tried EXCEPT !.failed_optimizations = @ + 1]
                ELSE IF status_of[provider_id] \in {"Optimal", "Feasible (Time Limit)"}
                THEN [tried EXCEPT !.core_runs = @ + 1,       \* lines 485-490
                                   !.provider_results = Append(@, provider_id),
                                   !.successful_optimizations = @ + 1]
                ELSE [tried EXCEPT !.core_runs = @ + 1,       \* lines 502-505
                                   !.failed_optimizations = @ + 1],
                status_of)

\* the request reaches the loop of the full-business-line branch
ReachesProviderLoop(request) ==
    /\ request.json /\ request.numeric
    /\ ~(request.optimization_mode = "single_provider"
            /\ request.selected_provider /= {})
    /\ request.business_line = "known" /\ request.census_month = "known"

\* C25: the business-line driver runs the core exactly once for each provider
\* of the catalog, in ascending order of the provider ids; afterwards
\* successful + failed is the number of providers, the combined result has
\* one entry for each successful provider, and an error is reported when no
\* provider succeeds.
SequentialDriver ==
    (returned /= NoReturn /\ ReachesProviderLoop(call.request)) =>
        \A status_of \in [CatalogProviders -> {"Optimal", "Infeasible"}] :
            LET run == ProviderLoop(SortedProviders(CatalogProviders), NoRuns, status_of)
            IN /\ run.core_runs = Cardinality(CatalogProviders)
               /\ Len(run.attempted) = Cardinality(CatalogProviders)
               /\ \A i, j \in DOMAIN run.attempted :
                      i < j => run.attempted[i] < run.attempted[j]
               /\ run.successful_optimizations + run.failed_optimizations
                      = Cardinality(CatalogProviders)
               /\ Len(run.provider_results) = run.successful_optimizations
               /\ run.provider_results = <<>> =>
                      /\ returned.status_code = 500
                      /\ ~returned.body.success

\* C26: in every returned solution no facility is visited on a day on which
\* the provider is unavailable: z[p,f,d] = 0 for every facility f, so the day
\* has no tour and adds nothing to the travel figures.
NoVisitWhenUnavailable ==
    (ReadingDay /\ UnavailableDay(args.target_provider, day)) =>
        \A f \in Facilities : z[f] = 0

\* C27: in every returned result each facility of a day's tour (z[p,f,d] = 1)
\* has at least one patient scheduled for the provider on that day, so a day
\* with travel has a schedule entry that lists every facility of its tour.
TourOnlyWherePatients ==
    ReadingDay =>
        \A f \in Facilities :
            z[f] = 1 => f \in DOMAIN DayAssignments(args.target_provider, x)

\* C28: in every returned single-provider schedule a facility whose adjusted
\* requirement is 0 has no patients scheduled on any day, and
\* total_patients_served is the sum of the adjusted requirements of the
\* provider's facilities.
NoOverServing ==
    Returned =>
        /\ \A f \in Facilities : AdjustedDemand(f) = 0 => served[f] = 0
        /\ results.total_patients_served
               = SumOver({f \in Facilities : Assigned(args.target_provider, f)},
                         [f \in Facilities |-> AdjustedDemand(f)])

\* the travel figures of a result have been put together
ReportDone == returned.function = "travel_report" /\ returned.finished

\* C29: in every returned result total_travel_time equals
\* home_to_facility_travel + facility_to_facility_travel and the sum of the
\* per-day totals, and every horizon date has an entry in daily_travel_times
\* that is 0 for a day without a visit.
TravelTotalsConsistent ==
    ReportDone =>
        /\ returned.total_travel_time
               = returned.home_to_facility_travel + returned.facility_to_facility_travel
        /\ returned.total_travel_time
               = SumOver(DOMAIN call.z, returned.daily_travel_times)
        /\ DOMAIN returned.daily_travel_times = DOMAIN call.z
        /\ \A d \in DOMAIN call.z :
               call.z[d] = {} => returned.daily_travel_times[d] = 0

\* a day with the tour F1, F2 (0.5 h from home, one hop of 0.2 h) and a day
\* without a visit
TravelTotalsWitness ==
    /\ ReportDone
    /\ call.z[0] = {"F1", "F2"}
    /\ call.z[1] = {}
    /\ returned.daily_travel_times[0] = 700
    /\ returned.home_to_facility_travel = 500
    /\ returned.facility_to_facility_travel = 200
    /\ returned.total_travel_time = 700

\* the place of facility f in the input list, the hops of the returned tour
\* and the facilities not yet visited before hop i
PlaceInList(f) == CHOOSE i \in DOMAIN call.facilities : call.facilities[i] = f
TourStart == returned.details[1][2]
TourHops == Tail(returned.details)
Unvisited(i) == (Visited \ {TourStart}) \ {TourHops[j][2] : j \in 1 .. (i - 1)}

\* C30: for a list of n >= 1 distinct facilities and any travel tables the
\* greedy tour starts at a facility nearest to home, ends after exactly n - 1
\* hops, every facility but the starting one is the target of exactly one hop,
\* each hop leaves from where the last
\* one arrived and goes to a nearest unvisited facility, and among equally
\* near facilities to the one that comes first in the input list.
GreedyTourVisitsOnce ==
    (TravelDone /\ call.facilities /= <<>>) =>
        /\ Len(TourHops) = Len(call.facilities) - 1
        /\ TourStart \in Visited
        /\ \A g \in Visited :
               \/ HomeTime(TourStart) < HomeTime(g)
               \/ /\ HomeTime(TourStart) = HomeTime(g)
                  /\ PlaceInList(TourStart) <= PlaceInList(g)
        /\ \A f \in Visited \ {TourStart} :
               Cardinality({i \in DOMAIN TourHops : TourHops[i][2] = f}) = 1
        /\ \A i \in DOMAIN TourHops :
               /\ TourHops[i][1] = (IF i = 1 THEN TourStart ELSE TourHops[i - 1][2])
               /\ \A g \in Unvisited(i) :
                      \/ Hop(TourHops[i][1], TourHops[i][2]) < Hop(TourHops[i][1], g)
                      \/ /\ Hop(TourHops[i][1], TourHops[i][2]) = Hop(TourHops[i][1], g)
                         /\ PlaceInList(TourHops[i][2]) <= PlaceInList(g)

\* three facilities listed as F3, F2, F1 with equal home times and equal
\* hops: the tour starts at F3 and goes on to F2 and then F1
GreedyTourWitness ==
    /\ TravelDone
    /\ call.facilities = <<"F3", "F2", "F1">>
    /\ \A f \in Visited : HomeTime(f) = 4
    /\ \A f, g \in Visited : f /= g => Hop(f, g) = 200
    /\ returned.details
           = <<(<<"Home", "F3">>), (<<"F3", "F2">>), (<<"F2", "F1">>)>>

====
